---- MODULE Spec2Model ----
(***************************************************************************)
(* Model of git-graph-abbrev.py: the primary-parent common-ancestor search *)
(* (find_lca), its folds (find_root, find_relevant_commits) and the        *)
(* assembly, rendering and postprocessing of the abbreviated log graph     *)
(* (get_abbrev_log_graph).                                                 *)
(*                                                                         *)
(* A repository is a set of commits 1..NumCommits; parents[c] is the       *)
(* primary parent (c.parents[0]) of c, or NoCommit when c.parents is       *)
(* empty.  Only the primary parent is ever read by the program.            *)
(***************************************************************************)
EXTENDS Integers, Sequences, FiniteSets, TLC

\* Bounds: the number of commits of the repository, and the largest number of
\* refs given on the command line.
NumCommits == 4
MaxHeads == 3

Commits == 1..NumCommits
NoCommit == 0

VARIABLES
    parents,      \* the repository: commit -> primary parent or NoCommit
    \* ---- one call of find_lca, run statement by statement ----
    ref1, ref2, ancestors1, ancestors2, last1, last2, lca_pc, lca_ret,
    \* ---- one call of get_abbrev_log_graph ----
    heads, render_commits, root, created, hi, new_growth,
    abbrev_nums, ri, nodes, faux_head, ref_head_cnt, abbrev_log, line_node,
    postproc_lines, pc

lca_vars == <<ref1, ref2, ancestors1, ancestors2, last1, last2, lca_pc, lca_ret>>
graph_vars == <<heads, render_commits, root, created, hi, new_growth,
                abbrev_nums, ri, nodes, faux_head, ref_head_cnt, abbrev_log,
                line_node, postproc_lines, pc>>
vars == <<parents, lca_vars, graph_vars>>

(***************************************************************************)
(* Repositories: a commit's primary parent is an older commit, so the      *)
(* primary-parent edges form a forest (git histories are acyclic).  The    *)
(* commits are numbered level by level: the parentless commits first, then *)
(* their children in the order of their parents, and so on.  Every history *)
(* has such a numbering, so every shape of history is a repository here;   *)
(* the refs given to the program pick any commits of it, in any order.     *)
(***************************************************************************)
Repositories ==
    {p \in [Commits -> {NoCommit} \cup Commits] :
        /\ \A c \in Commits : p[c] < c
        /\ \A c \in Commits \ {NumCommits} : p[c] <= p[c + 1]}

\* len(c.parents) == 0
NoParents(c) == parents[c] = NoCommit

\* c.parents[0]
PrimaryParent(c) == parents[c]

(***************************************************************************)
(* find_lca                                                                *)
(***************************************************************************)

\* The for-loop with the visited commit not added to the side's ancestors.
RECURSIVE ExtendFor_NoRecord(_, _, _, _)
ExtendFor_NoRecord(n, last, own, other) ==
    IF n = 0 \/ NoParents(last)
    THEN [ret |-> NoCommit, last |-> last, anc |-> own]
    ELSE LET nxt == PrimaryParent(last)
         IN  IF nxt \in other
             THEN [ret |-> nxt, last |-> nxt, anc |-> own]
             ELSE ExtendFor_NoRecord(n - 1, nxt, own, other)

\* The for-loop returning the cursor as it was before the matching step.
RECURSIVE ExtendFor_ReturnsChild(_, _, _, _)
ExtendFor_ReturnsChild(n, last, own, other) ==
    IF n = 0 \/ NoParents(last)
    THEN [ret |-> NoCommit, last |-> last, anc |-> own]
    ELSE LET nxt == PrimaryParent(last)
         IN  IF nxt \in other
             THEN [ret |-> last, last |-> nxt, anc |-> own]
             ELSE ExtendFor_ReturnsChild(n - 1, nxt, own \cup {nxt}, other)

\* The for-loop testing for a match on its last iteration only.
RECURSIVE ExtendFor_SkipsCheck(_, _, _, _)
ExtendFor_SkipsCheck(n, last, own, other) ==
    IF n = 0 \/ NoParents(last)
    THEN [ret |-> NoCommit, last |-> last, anc |-> own]
    ELSE LET nxt == PrimaryParent(last)
         IN  IF nxt \in other /\ n = 1
             THEN [ret |-> nxt, last |-> nxt, anc |-> own]
             ELSE ExtendFor_SkipsCheck(n - 1, nxt, own \cup {nxt}, other)

\* One `for _ in range(n)` loop of find_lca (lines 42-49, and 51-58 with the
\* sides swapped): at most n primary-parent steps of the cursor `last`, each
\* checked against the other side's ancestors and then recorded in `own`.
\* ret is the commit returned from inside the loop, or NoCommit.
RECURSIVE ExtendFor(_, _, _, _)
ExtendFor(n, last, own, other) ==
    IF n = 0 \/ NoParents(last)
    THEN [ret |-> NoCommit, last |-> last, anc |-> own]
    ELSE LET nxt == PrimaryParent(last)
         IN  IF nxt \in other
             THEN [ret |-> nxt, last |-> nxt, anc |-> own]
             ELSE ExtendFor(n - 1, nxt, own \cup {nxt}, other)

\* The `while True` loop of find_lca run to its end.  The loop is
\* deterministic and reads nothing but (last1, ancestors1, last2, ancestors2):
\* a round that returns nothing and moves neither cursor leaves that state as
\* it found it, so the loop never exits; the value is then NoCommit.
RECURSIVE WhileTrue(_, _, _, _)
WhileTrue(l1, a1, l2, a2) ==
    LET s1 == ExtendFor(Cardinality(a1), l1, a1, a2)
    IN  IF s1.ret # NoCommit THEN s1.ret
        ELSE LET s2 == ExtendFor(Cardinality(a2), l2, a2, s1.anc)
             IN  IF s2.ret # NoCommit THEN s2.ret
                 ELSE IF s1.last = l1 /\ s2.last = l2 THEN NoCommit
                 ELSE WhileTrue(s1.last, s1.anc, s2.last, s2.anc)

\* find_lca(ref1, ref2) as a value: the commit returned, or NoCommit when the
\* call never returns.
find_lca(r1, r2) ==
    IF r1 = r2 THEN r1 ELSE WhileTrue(r1, {r1}, r2, {r2})

\* ---- find_lca statement by statement ----

\* lines 31-38
LcaEnter ==
    /\ lca_pc = "call"
    /\ IF ref1 = ref2
       THEN /\ lca_ret' = ref1
            /\ lca_pc' = "return"
            /\ UNCHANGED <<ancestors1, ancestors2, last1, last2>>
       ELSE /\ ancestors1' = {ref1}
            /\ ancestors2' = {ref2}
            /\ last1' = ref1
            /\ last2' = ref2
            /\ lca_pc' = "extend1"
            /\ UNCHANGED lca_ret
    /\ UNCHANGED <<parents, ref1, ref2, graph_vars>>

\* lines 42-49
Extend1 ==
    /\ lca_pc = "extend1"
    /\ LET s == ExtendFor(Cardinality(ancestors1), last1, ancestors1, ancestors2)
       IN  /\ last1' = s.last
           /\ ancestors1' = s.anc
           /\ IF s.ret # NoCommit
              THEN lca_ret' = s.ret /\ lca_pc' = "return"
              ELSE lca_pc' = "extend2" /\ UNCHANGED lca_ret
    /\ UNCHANGED <<parents, ref1, ref2, ancestors2, last2, graph_vars>>

\* lines 51-58
Extend2 ==
    /\ lca_pc = "extend2"
    /\ LET s == ExtendFor(Cardinality(ancestors2), last2, ancestors2, ancestors1)
       IN  /\ last2' = s.last
           /\ ancestors2' = s.anc
           /\ IF s.ret # NoCommit
              THEN lca_ret' = s.ret /\ lca_pc' = "return"
              ELSE lca_pc' = "round_end" /\ UNCHANGED lca_ret
    /\ UNCHANGED <<parents, ref1, ref2, ancestors1, last1, graph_vars>>

\* line 40: the back edge of `while True`, taken unconditionally
LoopBack ==
    /\ lca_pc = "round_end"
    /\ lca_pc' = "extend1"
    /\ UNCHANGED <<parents, ref1, ref2, ancestors1, ancestors2, last1, last2,
                   lca_ret, graph_vars>>

GraphIdle ==
    /\ heads = <<>> /\ render_commits = {} /\ root = NoCommit
    /\ created = <<>> /\ hi = 0 /\ new_growth = <<>> /\ abbrev_nums = <<>>
    /\ ri = 0 /\ nodes = <<>> /\ faux_head = 0 /\ ref_head_cnt = 0
    /\ abbrev_log = <<>> /\ line_node = <<>> /\ postproc_lines = <<>>
    /\ pc = "idle"

LcaIdle ==
    /\ ref1 = NoCommit /\ ref2 = NoCommit /\ ancestors1 = {} /\ ancestors2 = {}
    /\ last1 = NoCommit /\ last2 = NoCommit /\ lca_ret = NoCommit
    /\ lca_pc = "idle"

InitLca ==
    /\ parents \in Repositories
    /\ ref1 \in Commits
    /\ ref2 \in Commits
    /\ ancestors1 = {} /\ ancestors2 = {}
    /\ last1 = NoCommit /\ last2 = NoCommit
    /\ lca_ret = NoCommit
    /\ lca_pc = "call"
    /\ GraphIdle

NextLca == LcaEnter \/ Extend1 \/ Extend2 \/ LoopBack

SpecLca == InitLca /\ [][NextLca]_vars

\* The interpreter runs the loop's next statement whenever there is one.
FairSpecLca == SpecLca /\ WF_vars(NextLca)

(***************************************************************************)
(* find_root, find_relevant_commits                                        *)
(***************************************************************************)

\* lines 70-71: `for c in commit_list[1:]: root = find_lca(root, c)`, from the
\* i-th element on.  NoCommit when a find_lca call never returns.
RECURSIVE FoldLca(_, _, _)
FoldLca(r, commit_list, i) ==
    IF i > Len(commit_list) THEN r
    ELSE LET l == find_lca(r, commit_list[i])
         IN  IF l = NoCommit THEN NoCommit ELSE FoldLca(l, commit_list, i + 1)

\* The fold restarted from the first head at every step.
find_root_NoAccumulate(commit_list) ==
    find_lca(commit_list[1], commit_list[Len(commit_list)])

find_root(commit_list) == FoldLca(commit_list[1], commit_list, 2)

\* lines 88-96: the find_lca results of every ordered pair of positions i # j
PairLcas(commit_list) ==
    {find_lca(commit_list[i], commit_list[j]) :
        <<i, j>> \in {q \in (DOMAIN commit_list) \X (DOMAIN commit_list) : q[1] # q[2]}}

\* The LCA loop left out.
find_relevant_commits_HeadsOnly(commit_list) ==
    {commit_list[i] : i \in DOMAIN commit_list}

\* The key set of the dict find_relevant_commits returns (only membership in
\* it is ever read, lines 172).  It holds NoCommit when one of the find_lca
\* calls never returns, and then find_relevant_commits never returns either.
find_relevant_commits(commit_list) ==
    {commit_list[i] : i \in DOMAIN commit_list} \cup PairLcas(commit_list)

(***************************************************************************)
(* Text.  A string is a sequence of one-character strings.                 *)
(***************************************************************************)
COMMIT_ABBREV == <<"C","O","M","M","I","T","_","T","Y","P","E","1">>
COMMIT_REGULAR == <<"C","O","M","M","I","T","_","T","Y","P","E","2">>
COMMIT_HEAD == <<"C","O","M","M","I","T","_","T","Y","P","E","3">>
COMMIT_TAG_LEN == Len(COMMIT_ABBREV)

\* len(root.hexsha): the number of hexadecimal digits of an object name.  The
\* program does not fix it (it measures root.hexsha, line 224); the source and
\* the faux repository use the same object format.
HexShaLen == 8
\* rev_parse(short=True): git abbreviates to 7 digits
ShortShaLen == 7

HexDigits == <<"0","1","2","3","4","5","6","7","8","9","a","b","c","d","e","f">>

\* str(n) for n >= 0
RECURSIVE DecimalStr(_)
DecimalStr(n) ==
    IF n < 10 THEN <<HexDigits[n + 1]>>
    ELSE DecimalStr(n \div 10) \o <<HexDigits[(n % 10) + 1]>>

\* c.hexsha of a commit of the repository, and its short form
hexsha(c) == [i \in 1..HexShaLen |-> HexDigits[(c % 16) + 1]]
shortsha(c) == SubSeq(hexsha(c), 1, ShortShaLen)

\* c.summary: the subject line of the commit's message; the commits of the
\* repository carry subjects that contain the renderer's glyph, a type tag,
\* or neither.
summary(c) ==
    CASE c % 3 = 0 -> <<"f","i","x"," ","*">>
      [] c % 3 = 1 -> <<"i","n","i","t">>
      [] OTHER     -> COMMIT_ABBREV \o <<" ","x">>

\* lines 158-159, 201-202: the decoration of the `git log --decorate -1` line,
\* empty for a commit no ref points to
decor(c) == IF c % 2 = 0 THEN <<" ","(","t",")">> ELSE <<>>

(***************************************************************************)
(* Assembly of the faux repository                                         *)
(***************************************************************************)

Range(f) == {f[i] : i \in DOMAIN f}

\* list.reverse()
Reverse(s) == [i \in 1..Len(s) |-> s[Len(s) + 1 - i]]

Min(a, b) == IF a < b THEN a ELSE b

\* zip(a, b)
Zip(a, b) == [i \in 1..Min(Len(a), Len(b)) |-> <<a[i], b[i]>>]

\* The walk with the `- 1` of line 175 left out.
RECURSIVE Walk_CountsSelf(_, _, _, _, _, _)
Walk_CountsSelf(c, abbrev_num, growth, nums, relevant, rendered) ==
    LET hit == c \in relevant
        g == IF hit THEN Append(growth, c) ELSE growth
        a == IF hit THEN Append(nums, abbrev_num) ELSE nums
        n == IF hit THEN 0 ELSE abbrev_num
    IN  IF c \in rendered THEN [ok |-> TRUE, new_growth |-> g, abbrev_nums |-> a]
        ELSE IF NoParents(c) THEN [ok |-> FALSE, new_growth |-> g, abbrev_nums |-> a]
        ELSE Walk_CountsSelf(PrimaryParent(c), n + 1, g, a, relevant, rendered)

\* lines 171-181: the `while True` walk from commit c, with the lists built so
\* far.  ok is FALSE when c.parents[0] is read on a parentless commit
\* (IndexError).
RECURSIVE Walk(_, _, _, _, _, _)
Walk(c, abbrev_num, growth, nums, relevant, rendered) ==
    LET hit == c \in relevant
        g == IF hit THEN Append(growth, c) ELSE growth
        a == IF hit THEN Append(nums, abbrev_num - 1) ELSE nums
        n == IF hit THEN 0 ELSE abbrev_num
    IN  IF c \in rendered THEN [ok |-> TRUE, new_growth |-> g, abbrev_nums |-> a]
        ELSE IF NoParents(c) THEN [ok |-> FALSE, new_growth |-> g, abbrev_nums |-> a]
        ELSE Walk(PrimaryParent(c), n + 1, g, a, relevant, rendered)

\* line 191 with the anchor not skipped: zip(new_growth, abbrev_nums)
ReplayList_WithAnchor(growth, nums) == Zip(growth, nums)

\* line 191: zip(new_growth[1:], abbrev_nums)
ReplayList(growth, nums) == Zip(Tail(growth), nums)

\* A commit of the faux repository: the subject of its message, its parent (0 for the first
\* commit), the branch it was committed on (0: the initial branch; k:
\* REF_HEAD_k), and what it stands for: kind "commit" for a rendered commit
\* `commit`, kind "abbrev" for a marker commit, with the count it shows (0: none).
FauxCommit(kind, c, num, message, parent, branch) ==
    [kind |-> kind, commit |-> c, num |-> num, message |-> message,
     parent |-> parent, branch |-> branch]

\* lines 157, 199: COMMIT_HEAD if c in heads else COMMIT_REGULAR
CommitType(c, hs) == IF c \in Range(hs) THEN COMMIT_HEAD ELSE COMMIT_REGULAR

\* line 204: f'{c_type} {c_shortsha} {c.summary}{c_decor}'
CommitMessage(c, hs) ==
    CommitType(c, hs) \o <<" ">> \o shortsha(c) \o <<" ">> \o summary(c) \o decor(c)

\* line 161: f'{root_type} {root_shortsha} {root.message}{root_decor}'.
\* root.message is the summary followed by a newline, so the decoration
\* starts a second line; the subject of the faux commit, which is what the
\* one-line log shows, is the lines of that paragraph joined by a space.
RootMessage(c, hs) ==
    CommitType(c, hs) \o <<" ">> \o shortsha(c) \o <<" ">> \o summary(c)
      \o (IF decor(c) = <<>> THEN <<>> ELSE <<" ">> \o decor(c))

\* line 196: f'{COMMIT_ABBREV} [{abbrev_num} commit(s) abbreviated]'
AbbrevMessage(abbrev_num) ==
    COMMIT_ABBREV \o <<" ","[">> \o DecimalStr(abbrev_num)
      \o <<" ","c","o","m","m","i","t","(","s",")"," ",
           "a","b","b","r","e","v","i","a","t","e","d","]">>

\* The replay with markers committed for a gap of 0 too (>= for > on line 193).
ReplayCommits_NonNegative(c, abbrev_num, hs, parent, next, branch) ==
    IF abbrev_num >= 0
    THEN << FauxCommit("abbrev", c, 0, COMMIT_ABBREV, parent, branch),
            FauxCommit("abbrev", c, abbrev_num, AbbrevMessage(abbrev_num), next, branch),
            FauxCommit("abbrev", c, 0, COMMIT_ABBREV, next + 1, branch),
            FauxCommit("commit", c, 0, CommitMessage(c, hs), next + 2, branch) >>
    ELSE << FauxCommit("commit", c, 0, CommitMessage(c, hs), parent, branch) >>

\* lines 193-204: the copy_commit calls of one replayed entry, each committing
\* on top of the previous one, the first on top of faux commit `parent`;
\* `next` is the index the first new commit gets.
ReplayCommits(c, abbrev_num, hs, parent, next, branch) ==
    IF abbrev_num > 0
    THEN << FauxCommit("abbrev", c, 0, COMMIT_ABBREV, parent, branch),
            FauxCommit("abbrev", c, abbrev_num, AbbrevMessage(abbrev_num), next, branch),
            FauxCommit("abbrev", c, 0, COMMIT_ABBREV, next + 1, branch),
            FauxCommit("commit", c, 0, CommitMessage(c, hs), next + 2, branch) >>
    ELSE << FauxCommit("commit", c, 0, CommitMessage(c, hs), parent, branch) >>

\* line 145.  A find_lca call that never returns keeps the program in it.
FindRelevantCommits ==
    /\ pc = "find_relevant_commits"
    /\ LET r == find_relevant_commits(heads)
       IN  IF NoCommit \in r
           THEN pc' = "find_lca_loops" /\ UNCHANGED render_commits
           ELSE pc' = "create_root" /\ render_commits' = r
    /\ UNCHANGED <<parents, lca_vars, heads, root, created, hi, new_growth,
                   abbrev_nums, ri, nodes, faux_head, ref_head_cnt, abbrev_log,
                   line_node, postproc_lines>>

\* lines 155-162
CreateRoot ==
    /\ pc = "create_root"
    /\ LET r == find_root(heads)
       IN  IF r = NoCommit
           THEN pc' = "find_lca_loops" /\ UNCHANGED <<root, nodes, faux_head, created, hi>>
           ELSE /\ root' = r
                /\ nodes' = <<FauxCommit("commit", r, 0, RootMessage(r, heads), 0, 0)>>
                /\ faux_head' = 1
                /\ created' = (r :> 1)
                /\ hi' = 1
                /\ pc' = "for_head"
    /\ UNCHANGED <<parents, lca_vars, heads, render_commits, new_growth,
                   abbrev_nums, ri, ref_head_cnt, abbrev_log, line_node,
                   postproc_lines>>

\* lines 165-190: the walk of the next head, and the branch checked out at its
\* budding point.  new_growth[0] raises IndexError on an empty list, and
\* created[new_growth[0].binsha] raises KeyError when the commit is not a key
\* of created.
FindBranch ==
    /\ pc = "for_head"
    /\ hi <= Len(heads)
    /\ LET w == Walk(heads[hi], 0, <<>>, <<>>, render_commits, DOMAIN created)
           g == Reverse(w.new_growth)
           a == Reverse(w.abbrev_nums)
       IN  IF ~w.ok \/ g = <<>>
           THEN pc' = "IndexError" /\ UNCHANGED <<new_growth, abbrev_nums, ri, faux_head, ref_head_cnt>>
           ELSE IF g[1] \notin DOMAIN created
           THEN pc' = "KeyError" /\ UNCHANGED <<new_growth, abbrev_nums, ri, faux_head, ref_head_cnt>>
           ELSE /\ new_growth' = g
                /\ abbrev_nums' = a
                /\ ref_head_cnt' = ref_head_cnt + 1
                /\ faux_head' = created[g[1]]
                /\ ri' = 1
                /\ pc' = "replay"
    /\ UNCHANGED <<parents, lca_vars, heads, render_commits, root, created, hi,
                   nodes, abbrev_log, line_node, postproc_lines>>

\* lines 191-205: one iteration of the replay loop
ReplayEntry ==
    /\ pc = "replay"
    /\ ri <= Len(ReplayList(new_growth, abbrev_nums))
    /\ LET e == ReplayList(new_growth, abbrev_nums)[ri]
           new == ReplayCommits(e[1], e[2], heads, faux_head, Len(nodes) + 1, ref_head_cnt)
       IN  /\ nodes' = nodes \o new
           /\ faux_head' = Len(nodes) + Len(new)
           /\ created' = (e[1] :> (Len(nodes) + Len(new))) @@ created
    /\ ri' = ri + 1
    /\ UNCHANGED <<parents, lca_vars, heads, render_commits, root, hi,
                   new_growth, abbrev_nums, ref_head_cnt, abbrev_log, line_node,
                   postproc_lines, pc>>

\* line 165: the replay loop is exhausted; on to the next head
NextHead ==
    /\ pc = "replay"
    /\ ri > Len(ReplayList(new_growth, abbrev_nums))
    /\ hi' = hi + 1
    /\ pc' = "for_head"
    /\ UNCHANGED <<parents, lca_vars, heads, render_commits, root, created,
                   new_growth, abbrev_nums, ri, nodes, faux_head, ref_head_cnt,
                   abbrev_log, line_node, postproc_lines>>

(***************************************************************************)
(* Rendering (git log of the faux repository) and postprocessing           *)
(***************************************************************************)

Max(a, b) == IF a > b THEN a ELSE b

\* A Python slice bound i on a string of length n: negative bounds count from
\* the end, and every bound is clipped to 0..n.
PyBound(i, n) == IF i < 0 THEN Max(i + n, 0) ELSE Min(i, n)

\* s[a:b]
PySlice(s, a, b) ==
    LET lo == PyBound(a, Len(s))
        up == PyBound(b, Len(s))
    IN  IF lo >= up THEN <<>> ELSE SubSeq(s, lo + 1, up)

\* s.find(pat) from position i: the 0-based index of the first occurrence of
\* pat at or after i, or -1
RECURSIVE FindFrom(_, _, _)
FindFrom(s, pat, i) ==
    IF i + Len(pat) > Len(s) THEN -1
    ELSE IF s[i + 1] = pat[1] /\ SubSeq(s, i + 1, i + Len(pat)) = pat THEN i
    ELSE FindFrom(s, pat, i + 1)

\* s.find(pat), for a non-empty pat
PyFind(s, pat) == FindFrom(s, pat, 0)

\* pat in s
PyIn(pat, s) == PyFind(s, pat) # -1

\* s.replace(old, new, 1) for one-character old and new
PyReplaceFirst(s, old, new) ==
    LET at == PyFind(s, <<old>>)
    IN  IF at = -1 THEN s ELSE [s EXCEPT ![at + 1] = new]

\* The hexsha of the n-th commit made in the faux repository.
faux_hexsha(n) ==
    [i \in 1..HexShaLen |->
        IF i = 1 THEN HexDigits[((n \div 16) % 16) + 1]
        ELSE IF i = 2 THEN HexDigits[(n % 16) + 1]
        ELSE "e"]

\* The graph column git draws a faux commit in: the first branch made shares
\* the column of the initial branch, later branches are drawn beside it.
GraphColumn(node) == IF node.branch <= 1 THEN <<>> ELSE <<"|"," ">>

\* The line of `git log --graph --oneline --no-abbrev-commit --no-decorate`
\* for the n-th faux commit: graph columns, the glyph, the full hash, the
\* subject.
NodeLine(ns, n) ==
    GraphColumn(ns[n]) \o <<"*"," ">> \o faux_hexsha(n) \o <<" ">> \o ns[n].message

\* The first commit of a branch drawn beside the first column: git draws an
\* edge line below it, joining it to its budding point.
StartsBranch(ns, n) == ns[n].branch > 1 /\ ns[ns[n].parent].branch # ns[n].branch

\* lines 207-212: the lines of the log of all branches from the n-th faux
\* commit down, newest commit first.
RECURSIVE git_log(_, _)
git_log(ns, n) ==
    IF n = 0 THEN <<>>
    ELSE <<NodeLine(ns, n)>>
         \o (IF StartsBranch(ns, n) THEN << <<"|","/">> >> ELSE <<>>)
         \o git_log(ns, n - 1)

\* The faux commit each line of git_log draws (0 for an edge line).
RECURSIVE git_log_nodes(_, _)
git_log_nodes(ns, n) ==
    IF n = 0 THEN <<>>
    ELSE <<n>> \o (IF StartsBranch(ns, n) THEN <<0>> ELSE <<>>) \o git_log_nodes(ns, n - 1)

\* lines 229-234: the glyph changed according to the type tag found in prefix
retag(prefix, noprefix) ==
    IF PyIn(COMMIT_ABBREV, prefix) THEN PyReplaceFirst(noprefix, "*", "|")
    ELSE IF PyIn(COMMIT_HEAD, prefix) THEN PyReplaceFirst(noprefix, "*", "@")
    ELSE noprefix

\* lines 226-234: line[prefix_start:prefix_end] cut out of the line
cut_prefix(line, prefix_start, prefix_end) ==
    retag(PySlice(line, prefix_start, prefix_end),
          PySlice(line, 0, prefix_start) \o PySlice(line, prefix_end, Len(line)))

\* lines 218-224, with the slice start one too far right
strip_at_OffByOne(line, found) ==
    IF found = -1 THEN line
    ELSE cut_prefix(line,
                    found + COMMIT_TAG_LEN + 1 - (COMMIT_TAG_LEN + HexShaLen + 1),
                    found + COMMIT_TAG_LEN + 1)

\* lines 218-224: found is line.find('COMMIT_'); prefix_end is
\* found + COMMIT_TAG_LEN + 1 and prefix_start is
\* prefix_end - (COMMIT_TAG_LEN + len(root.hexsha) + 2)
strip_at(line, found) ==
    IF found = -1 THEN line
    ELSE cut_prefix(line,
                    found + COMMIT_TAG_LEN + 1 - (COMMIT_TAG_LEN + HexShaLen + 2),
                    found + COMMIT_TAG_LEN + 1)

\* lines 217-234 on one line of the log
postproc_line(line) == strip_at(line, PyFind(line, <<"C","O","M","M","I","T","_">>))

\* lines 207-212, once every head has its branch
GitLog ==
    /\ pc = "for_head"
    /\ hi > Len(heads)
    /\ abbrev_log' = git_log(nodes, Len(nodes))
    /\ line_node' = git_log_nodes(nodes, Len(nodes))
    /\ pc' = "postprocess"
    /\ UNCHANGED <<parents, lca_vars, heads, render_commits, root, created, hi,
                   new_growth, abbrev_nums, ri, nodes, faux_head, ref_head_cnt,
                   postproc_lines>>

\* lines 215-236; the lines returned are joined with newlines
Postprocess ==
    /\ pc = "postprocess"
    /\ postproc_lines' = [k \in 1..Len(abbrev_log) |-> postproc_line(abbrev_log[k])]
    /\ pc' = "done"
    /\ UNCHANGED <<parents, lca_vars, heads, render_commits, root, created, hi,
                   new_growth, abbrev_nums, ri, nodes, faux_head, ref_head_cnt,
                   abbrev_log, line_node>>

\* The command line names one or more refs (nargs='+'), in any order and
\* with repetitions.
HeadLists == UNION {[1..n -> Commits] : n \in 1..MaxHeads}

Init ==
    /\ parents \in Repositories
    /\ heads \in HeadLists
    /\ render_commits = {} /\ root = NoCommit
    /\ created = <<>> /\ hi = 0 /\ new_growth = <<>> /\ abbrev_nums = <<>>
    /\ ri = 0 /\ nodes = <<>> /\ faux_head = 0 /\ ref_head_cnt = 0
    /\ abbrev_log = <<>> /\ line_node = <<>> /\ postproc_lines = <<>>
    /\ pc = "find_relevant_commits"
    /\ LcaIdle

Next ==
    \/ FindRelevantCommits
    \/ CreateRoot
    \/ FindBranch
    \/ ReplayEntry
    \/ NextHead
    \/ GitLog
    \/ Postprocess

Spec == Init /\ [][Next]_vars

(***************************************************************************)
(* Properties of find_lca                                                  *)
(***************************************************************************)

\* The primary-parent chain of c, c included: what walking parents[0] from c
\* visits.
RECURSIVE Chain(_)
Chain(c) == IF c = NoCommit THEN {} ELSE {c} \cup Chain(parents[c])

CommonAncestors(a, b) == Chain(a) \cap Chain(b)

\* The first commit of a's chain that lies on b's chain: the common commit
\* every other common commit is an ancestor of.
NearestCommon(a, b) ==
    LET common == CommonAncestors(a, b)
    IN  CHOOSE x \in common : common \subseteq Chain(x)

\* C1: whenever find_lca(ref1, ref2) returns, the returned commit lies on the
\* primary-parent chain of ref1 and on that of ref2 (it is reached from each
\* by zero or more first-parent steps).
C1_LcaIsCommonAncestor ==
    lca_pc = "return" => lca_ret \in Chain(ref1) /\ lca_ret \in Chain(ref2)

\* A call on two different commits that returned a third one, found by the
\* walk.
C1_Witness ==
    /\ lca_pc = "return"
    /\ ref1 # ref2
    /\ lca_ret \notin {ref1, ref2}
    /\ Cardinality(ancestors1) >= 2

\* C2: once a round of the loop has ended with both cursors on parentless
\* commits and no match, the search stops with NoCommonAncestor instead of
\* starting another round.
C2_NoCommonAncestorGuard ==
    [][(lca_pc = "round_end" /\ NoParents(last1) /\ NoParents(last2))
          => lca_pc' = "NoCommonAncestor"]_vars

\* C8: when the chains of ref1 and ref2 intersect, the commit returned is the
\* nearest common ancestor, the call with the arguments swapped returns the
\* same commit, and it is ref1 itself when ref1 lies on ref2's chain.
C8_LcaIsNearest ==
    (lca_pc = "return" /\ CommonAncestors(ref1, ref2) # {}) =>
        /\ lca_ret = NearestCommon(ref1, ref2)
        /\ lca_ret = find_lca(ref2, ref1)
        /\ (ref1 \in Chain(ref2) => lca_ret = ref1)

\* A call whose two walks were paced differently: the sides have recorded
\* different numbers of ancestors, and the result is not one of the arguments.
C8_Witness ==
    /\ lca_pc = "return"
    /\ lca_ret \notin {ref1, ref2}
    /\ Cardinality(ancestors1) # Cardinality(ancestors2)

\* C9: a call on two commits whose chains share a commit eventually returns.
C9_ConnectedTerminates ==
    [](CommonAncestors(ref1, ref2) # {} => <>(lca_pc = "return"))

\* A round ended with one cursor stopped on a parentless commit while the
\* other, on connected chains, still has parents to walk.
C9_Witness ==
    /\ lca_pc = "round_end"
    /\ CommonAncestors(ref1, ref2) # {}
    /\ NoParents(last1)
    /\ ~NoParents(last2)

(***************************************************************************)
(* Properties of the assembly                                              *)
(***************************************************************************)

\* Some commit lies on the primary-parent chain of every head.
SharedAncestor(hs) == \E c \in Commits : \A i \in DOMAIN hs : c \in Chain(hs[i])

\* The heads together with the nearest common ancestor of every two heads.
RelevantSet(hs) ==
    Range(hs) \cup {NearestCommon(hs[i], hs[j]) : <<i, j>> \in (DOMAIN hs) \X (DOMAIN hs)}

\* The number of primary-parent steps from c to the commit a of its chain.
RECURSIVE Dist(_, _)
Dist(c, a) == IF c = a THEN 0 ELSE 1 + Dist(parents[c], a)

\* The first commit of c's chain that belongs to the set S.
FirstIn(c, S) ==
    LET onChain == Chain(c) \cap S
    IN  CHOOSE x \in onChain : onChain \subseteq Chain(x)

RECURSIVE SumGaps(_)
SumGaps(entries) ==
    IF entries = <<>> THEN 0 ELSE Head(entries)[2] + SumGaps(Tail(entries))

\* C3: for heads that share a primary-parent ancestor, the commit find_root
\* returns lies on the primary-parent chain of every head.
C3_RootIsCommonAncestor ==
    (SharedAncestor(heads) /\ pc \notin {"find_relevant_commits", "create_root"}) =>
        /\ root \in Commits
        /\ \A i \in DOMAIN heads : root \in Chain(heads[i])

\* Three different heads whose root is none of them.
C3_Witness ==
    /\ pc = "done"
    /\ Len(heads) = 3
    /\ Cardinality(Range(heads)) = 3
    /\ root \notin Range(heads)

\* C4: when the chain of a head has been built, the gap counts of the entries
\* the assembler replays, plus the number k of relevant commits on the path
\* from the head to its anchor (anchor excluded), equal the length L of that
\* path.
C4_GapSum ==
    (pc = "replay" /\ ri = 1) =>
        LET anchor == FirstIn(heads[hi], DOMAIN created)
            L == Dist(heads[hi], anchor)
            k == Cardinality((Chain(heads[hi]) \ Chain(anchor)) \cap RelevantSet(heads))
        IN  SumGaps(ReplayList(new_growth, abbrev_nums)) + k = L

\* A chain of three steps with two relevant commits and one skipped commit.
C4_Witness ==
    /\ pc = "replay"
    /\ ri = 1
    /\ Dist(heads[hi], new_growth[1]) = 3
    /\ Len(new_growth) = 3
    /\ SumGaps(ReplayList(new_growth, abbrev_nums)) = 1

\* C5: for heads that share a primary-parent ancestor, no walk runs out of
\* parents and no budding-point lookup fails, and the first entry of every
\* chain is the first already-rendered commit on the head's chain.
C5_AnchorRendered ==
    SharedAncestor(heads) =>
        /\ pc \notin {"IndexError", "KeyError"}
        /\ (pc = "replay" /\ ri = 1) =>
              /\ new_growth[1] \in DOMAIN created
              /\ new_growth[1] = FirstIn(heads[hi], DOMAIN created)

\* A later head whose chain is anchored on a commit rendered for an earlier
\* head, not on the root.
C5_Witness ==
    /\ pc = "replay"
    /\ ri = 1
    /\ hi >= 2
    /\ Len(new_growth) >= 2
    /\ new_growth[1] # root

\* The number of commits skipped between the rendered commit c and the next
\* commit of the set `relevant` on its chain.
SkippedBefore(c, relevant) == Dist(c, FirstIn(parents[c], relevant)) - 1

IsCommit(i) == i \in DOMAIN nodes /\ nodes[i].kind = "commit"
IsAbbrev(i) == i \in DOMAIN nodes /\ nodes[i].kind = "abbrev"

\* C6 as stated: each replayed commit with a positive gap is preceded by a
\* single marker commit, annotated with the gap; one with gap 0 by none.
C6_SingleMarker ==
    LET relevant == RelevantSet(heads)
    IN  \A i \in 2..Len(nodes) :
            IsCommit(i) =>
                IF SkippedBefore(nodes[i].commit, relevant) > 0
                THEN /\ IsAbbrev(i - 1)
                     /\ nodes[i - 1].num = SkippedBefore(nodes[i].commit, relevant)
                     /\ IsCommit(i - 2)
                ELSE IsCommit(i - 1)

\* C6 as amended: each replayed commit with a positive gap is preceded by
\* three marker commits in a row, the middle one annotated with the gap (the
\* number of commits skipped between the commit and the older chain entry) and
\* the two around it blank; one with gap 0 is committed directly on the older
\* chain entry.
C6_ThreeMarkers ==
    LET relevant == RelevantSet(heads)
    IN  \A i \in 2..Len(nodes) :
            IsCommit(i) =>
                LET c == nodes[i].commit
                    older == FirstIn(parents[c], relevant)
                    gap == SkippedBefore(c, relevant)
                IN  IF gap > 0
                    THEN /\ IsAbbrev(i - 1) /\ IsAbbrev(i - 2) /\ IsAbbrev(i - 3)
                         /\ IsCommit(i - 4)
                         /\ nodes[i - 2].num = gap
                         /\ nodes[i - 2].message = AbbrevMessage(gap)
                         /\ nodes[i - 1].message = COMMIT_ABBREV
                         /\ nodes[i - 3].message = COMMIT_ABBREV
                         /\ nodes[i].parent = i - 1
                         /\ nodes[i - 1].parent = i - 2
                         /\ nodes[i - 2].parent = i - 3
                         /\ nodes[i - 3].parent = created[older]
                    ELSE /\ IsCommit(i - 1)
                         /\ nodes[i].parent = created[older]

\* One branch with a commit behind markers and a commit without.
C6_Witness ==
    /\ pc = "for_head"
    /\ \E i, j \in 2..Len(nodes) :
          /\ IsCommit(i) /\ IsAbbrev(i - 1)
          /\ IsCommit(j) /\ IsCommit(j - 1)
          /\ nodes[i].branch = nodes[j].branch
          /\ nodes[i - 2].num >= 1

\* The glyph of a faux commit's role, and the line expected for it: graph
\* columns, glyph, and the message without its type tag.
Glyph(node) ==
    IF node.kind = "abbrev" THEN "|"
    ELSE IF node.commit \in Range(heads) THEN "@"
    ELSE "*"

Untagged(node) ==
    IF Len(node.message) <= COMMIT_TAG_LEN + 1 THEN <<>>
    ELSE SubSeq(node.message, COMMIT_TAG_LEN + 2, Len(node.message))

ExpectedLine(node) == GraphColumn(node) \o <<Glyph(node), " ">> \o Untagged(node)

\* C7: the final text has the renderer's lines in the renderer's order; a
\* line drawing a faux commit shows '@' for a head, '|' for a marker and '*'
\* otherwise, followed by the message with hash and type tag removed; every
\* other line is unchanged.
C7_Glyphs ==
    pc = "done" =>
        /\ Len(postproc_lines) = Len(abbrev_log)
        /\ \A k \in DOMAIN abbrev_log :
              IF line_node[k] = 0
              THEN postproc_lines[k] = abbrev_log[k]
              ELSE postproc_lines[k] = ExpectedLine(nodes[line_node[k]])

\* A finished text with a head, a marker, a regular commit and an edge line.
C7_Witness ==
    /\ pc = "done"
    /\ \E k \in DOMAIN line_node : line_node[k] = 0
    /\ \E k \in DOMAIN line_node : line_node[k] # 0 /\ Glyph(nodes[line_node[k]]) = "@"
    /\ \E k \in DOMAIN line_node : line_node[k] # 0 /\ Glyph(nodes[line_node[k]]) = "|"
    /\ \E k \in DOMAIN line_node : line_node[k] # 0 /\ Glyph(nodes[line_node[k]]) = "*"

RenderedCommits == DOMAIN created

\* C10: for heads that share a primary-parent ancestor, the rendered commits
\* are always relevant commits, each rendered by exactly one faux commit, and
\* when assembly has finished they are exactly the heads and the nearest
\* common ancestors of the pairs of heads; the map and the faux repository
\* only grow.
C10_State ==
    SharedAncestor(heads) =>
        LET relevant == RelevantSet(heads)
        IN  /\ RenderedCommits \subseteq relevant
            /\ \A c \in Commits :
                  Cardinality({i \in DOMAIN nodes : IsCommit(i) /\ nodes[i].commit = c})
                     = (IF c \in RenderedCommits THEN 1 ELSE 0)
            /\ \A c \in RenderedCommits :
                  IsCommit(created[c]) /\ nodes[created[c]].commit = c
            /\ pc \in {"postprocess", "done"} =>
                  /\ RenderedCommits = relevant
                  /\ RenderedCommits = render_commits
                  /\ Range(heads) \subseteq RenderedCommits

C10_Step ==
    /\ RenderedCommits \subseteq DOMAIN created'
    /\ \A c \in RenderedCommits : created'[c] = created[c]
    /\ Len(nodes') >= Len(nodes)
    /\ SubSeq(nodes', 1, Len(nodes)) = nodes

C10_RenderedIsRelevantSet == [](C10_State) /\ [][C10_Step]_vars

\* A finished assembly that rendered a common ancestor that is not a head,
\* next to several heads.
C10_Witness ==
    /\ pc = "done"
    /\ Cardinality(Range(heads)) >= 2
    /\ Cardinality(RenderedCommits) > Cardinality(Range(heads))

====
